---- MODULE Spec2Model ----
(***************************************************************************)
(* Model of src/app.py: the /process request handler process_audio and the *)
(* two PCM conversion utilities it uses.                                   *)
(*                                                                         *)
(* One request is one behaviour.  The uploaded files are fixed in Init;    *)
(* a form field is resolved the first time the handler reads it (the       *)
(* handler reads every field at most once, so resolving it at the read is  *)
(* the same as fixing it before the request) and is kept in form from then *)
(* on.                                                                     *)
(*                                                                         *)
(* Time is modelled in milliseconds and every AudioSegment holds one frame *)
(* per millisecond, so len(segment) is Len(frames).  The form fields that  *)
(* carry seconds (bg_start, bg_end, bg_fade_start, bg_fade_len) are        *)
(* modelled in thousandths of a second, so "x * 1000" of the code is the   *)
(* field's number.  A float sample is modelled by an exact fraction        *)
(* [num, den] (float32 rounding is not modelled).  The time fields of the  *)
(* model are non-negative.                                                 *)
(*                                                                         *)
(* pydub, pedalboard and noisereduce are libraries outside the repository: *)
(* AudioSegment slicing, repetition, fade_out and overlay follow pydub's   *)
(* AudioSegment methods; a pedalboard plugin or reduce_noise is a          *)
(* length-preserving transformation recorded by name in the buffer.        *)
(***************************************************************************)
EXTENDS Integers, Sequences, FiniteSets, TLC

VARIABLES
    pc,                   \* the handler's position
    files,                \* request.files: audio_file and bg_file
    form,                 \* request.form, each field resolved at its first read
    audio_data,           \* the float buffer (decoded voice, then processed)
    board_modules,        \* the Pedalboard rack being assembled
    processed_voice_seg,  \* the 16-bit voice AudioSegment
    music_seg,            \* the background AudioSegment
    mix,                  \* locals of stage 2: start_sec, end_sec, loops, ...
    final_output,         \* the segment handed to export
    response,             \* the HTTP response
    trace                 \* the operations applied to the signal, in order

vars == <<pc, files, form, audio_data, board_modules, processed_voice_seg,
          music_seg, mix, final_output, response, trace>>

---------------------------------------------------------------------------
\* Bounds of the model.

\* longest uploaded voice, in ms
MaxVoice == 3
\* longest uploaded background track, in ms
MaxMusic == 2
\* largest value of a time field of the form, in ms
MaxTime == 2

---------------------------------------------------------------------------
\* Program constants.

\* np.iinfo('h').max and the encode scale
Int16Max == 32767
\* request.form.get('bg_vol', 20)
DefaultBgVol == 20
\* request.form.get('bg_fade_len', 3), in seconds
DefaultFadeLenSec == 3
\* "* 1000": seconds to milliseconds
MsPerSec == 1000
\* music_seg - 100
SilenceGainDb == -100
\* pydub fade: fades longer than 100 ms step once per ms
CoarseFadeMs == 100
\* pydub __getitem__: at most 2 ms of missing frames are filled with silence
MaxMissingMs == 2
\* the frame rate of a segment of the model: one frame per ms
VoiceRate == 1000
\* a background frame rate that differs from the voice's
OtherRate == 500

---------------------------------------------------------------------------
\* Values.

Min(a, b) == IF a < b THEN a ELSE b
Max(a, b) == IF a > b THEN a ELSE b
Abs(a) == IF a < 0 THEN -a ELSE a

FlagFields == {"enable_nr", "enable_vintage", "enable_mic", "enable_podcast"}
NumFields == {"val_nr", "val_vintage", "val_podcast", "bg_start", "bg_end",
              "bg_vol", "bg_fade_start", "bg_fade_len"}
Fields == FlagFields \cup NumFields

Unread == [k |-> "unread", n |-> 0]
Absent == [k |-> "absent", n |-> 0]
Bad == [k |-> "bad", n |-> 0]
Num(n) == [k |-> "num", n |-> n]
Str(s) == [k |-> s, n |-> 0]

\* The values a client may send in a field.
FlagValues == {Str("true"), Str("false")}
NrValues == {Bad, Num(0), Num(50)}
PercentValues == {Bad, Num(50)}
VolValues == {Bad, Absent, Num(-5), Num(0), Num(100)}
TimeValues == {Bad} \cup {Num(n) : n \in 0..MaxTime}
FieldValues(f) ==
    IF f \in FlagFields THEN FlagValues
    ELSE IF f = "val_nr" THEN NrValues
    ELSE IF f \in {"val_vintage", "val_podcast"} THEN PercentValues
    ELSE IF f = "bg_vol" THEN VolValues
    ELSE IF f = "bg_fade_len" THEN TimeValues \cup {Absent}
    ELSE TimeValues

\* float(request.form.get(f, default)): a number, or ValueError.
IsNumeric(v) == v.k \in {"num", "absent"}
Float(v, default) == IF v.k = "absent" THEN default ELSE v.n

\* The uploaded voice: 16-bit samples, the extremes included, at least one frame.
VoiceSample(i) == IF i % 3 = 1 THEN -32768 ELSE IF i % 3 = 2 THEN 32767 ELSE -5
VoicePcm(n) == [i \in 1..n |-> VoiceSample(i)]
\* The uploaded background track: frame i is sample i of the track, at unit gain.
MusicFrame(i) == [src |-> i, step |-> 0, of |-> 1]
MusicPcm(n) == [i \in 1..n |-> MusicFrame(i)]
\* A frame of silence (audioop.mul(frame, 0)).
SilentFrame == [src |-> 0, step |-> 0, of |-> 1]

NoFile == [status |-> "missing", pcm |-> <<>>, frame_rate |-> 0]
AudioFiles ==
    {NoFile, [NoFile EXCEPT !.status = "empty"], [NoFile EXCEPT !.status = "corrupt"]}
    \cup {[status |-> "ok", pcm |-> VoicePcm(n), frame_rate |-> VoiceRate] :
            n \in 1..MaxVoice}
BgFiles ==
    {NoFile, [NoFile EXCEPT !.status = "empty"], [NoFile EXCEPT !.status = "corrupt"]}
    \cup {[status |-> "ok", pcm |-> MusicPcm(n), frame_rate |-> VoiceRate] :
            n \in 1..MaxMusic}
    \cup {[status |-> "ok", pcm |-> MusicPcm(MaxMusic), frame_rate |-> OtherRate]}

NoBuffer == [samples |-> <<>>, fx |-> <<>>, sample_rate |-> 0]
NoSeg == [frames |-> <<>>, frame_rate |-> 0, gain |-> 0]
NoVoiceSeg == [pcm |-> <<>>, fx |-> <<>>, frame_rate |-> 0]
NoOutput == [voice |-> NoVoiceSeg, music |-> <<>>, music_gain |-> 0, mixed |-> FALSE]
NoMix == [start_sec |-> 0, end_sec |-> 0, loops |-> 0, log_arg |-> 0,
          log_called |-> FALSE, gain_db |-> 0, fade_start_sec |-> 0,
          fade_len_sec |-> 0]
NoResponse == [status |-> 0, body |-> ""]

---------------------------------------------------------------------------
\* PCM conversion utilities.

\* convert_audio_to_numpy: fp_arr /= np.iinfo(typecode).max, sample by sample.
convert_audio_to_numpy(file) ==
    [samples |-> [i \in 1..Len(file.pcm) |-> [num |-> file.pcm[i], den |-> Int16Max]],
     fx |-> <<>>,
     sample_rate |-> file.frame_rate]

\* np.clip(data, -1.0, 1.0) on one sample.
Clip(x) ==
    IF x.num < -x.den THEN [num |-> -1, den |-> 1]
    ELSE IF x.num > x.den THEN [num |-> 1, den |-> 1]
    ELSE x

\* (x * 32767).astype(np.int16) on one clipped sample: truncation toward zero.
ToInt16(x) ==
    IF x.num >= 0 THEN (x.num * Int16Max) \div x.den
    ELSE -((-x.num * Int16Max) \div x.den)

\* convert_numpy_to_audio: clip, scale by 32767, truncate to int16.  A buffer that
\* went through library stages keeps their names: its samples stand for the
\* stages' output.
convert_numpy_to_audio(data, sample_rate) ==
    [pcm |-> [i \in 1..Len(data.samples) |-> ToInt16(Clip(data.samples[i]))],
     fx |-> data.fx,
     frame_rate |-> sample_rate]

---------------------------------------------------------------------------
\* The handler.

Init ==
    /\ pc = "start"
    /\ files \in [audio_file : AudioFiles, bg_file : BgFiles]
    /\ form = [f \in Fields |-> Unread]
    /\ audio_data = NoBuffer
    /\ board_modules = <<>>
    /\ processed_voice_seg = NoVoiceSeg
    /\ music_seg = NoSeg
    /\ mix = NoMix
    /\ final_output = NoOutput
    /\ response = NoResponse
    /\ trace = <<>>

\* Mutant of Fail: the handler answers 200 from its except branch.
FailAnswersOk(why) ==
    /\ pc' = "error"
    /\ response' = [status |-> 200, body |-> why]

\* except Exception as e: return f"Error: {str(e)}", 500
Fail(why) ==
    /\ pc' = "error"
    /\ response' = [status |-> 500, body |-> why]

\* if 'audio_file' not in request.files / if voice_file.filename == ''
Reject ==
    /\ pc = "start"
    /\ files.audio_file.status \in {"missing", "empty"}
    /\ pc' = "rejected"
    /\ response' = [status |-> 400,
                    body |-> IF files.audio_file.status = "missing"
                             THEN "No file uploaded" ELSE "No selected file"]
    /\ UNCHANGED <<files, form, audio_data, board_modules, processed_voice_seg,
                   music_seg, mix, final_output, trace>>

\* 1. Load Voice, 2. Convert to Numpy
LoadVoice ==
    /\ pc = "start"
    /\ files.audio_file.status \in {"ok", "corrupt"}
    /\ IF files.audio_file.status = "corrupt"
       THEN /\ Fail("decode")
            /\ UNCHANGED <<audio_data, trace>>
       ELSE /\ audio_data' = convert_audio_to_numpy(files.audio_file)
            /\ trace' = Append(trace, "decode")
            /\ pc' = "nr"
            /\ UNCHANGED response
    /\ UNCHANGED <<files, form, board_modules, processed_voice_seg, music_seg,
                   mix, final_output>>

\* A library stage applied to the float buffer: same shape, recorded by name.
ApplyStage(data, stage) == [data EXCEPT !.fx = Append(@, stage)]

\* Mutant of NoiseReduction: the flag is tested for truthiness, not for 'true'.
NoiseReductionTruthy ==
    /\ pc = "nr"
    /\ \E en \in FieldValues("enable_nr"), val \in FieldValues("val_nr") :
         /\ form' = [form EXCEPT !["enable_nr"] = en, !["val_nr"] = val]
         /\ IF ~IsNumeric(val)
            THEN /\ Fail("val_nr")
                 /\ UNCHANGED <<audio_data, trace>>
            ELSE /\ pc' = "vintage"
                 /\ UNCHANGED response
                 /\ IF Float(val, 0) > 0
                    THEN /\ audio_data' = [audio_data EXCEPT !.fx =
                               Append(@, [type |-> "reduce_noise",
                                          args |-> <<Float(val, 0)>>])]
                         /\ trace' = Append(trace, "reduce_noise")
                    ELSE UNCHANGED <<audio_data, trace>>
    /\ UNCHANGED <<files, board_modules, processed_voice_seg, music_seg, mix,
                   final_output>>

\* 3. Noise Reduction (Spectral Gating)
NoiseReduction ==
    /\ pc = "nr"
    /\ \E en \in FieldValues("enable_nr") :
         IF en.k # "true"
         THEN /\ form' = [form EXCEPT !["enable_nr"] = en]
              /\ pc' = "vintage"
              /\ UNCHANGED <<audio_data, trace, response>>
         ELSE \E val \in FieldValues("val_nr") :
              /\ form' = [form EXCEPT !["enable_nr"] = en, !["val_nr"] = val]
              /\ IF ~IsNumeric(val)
                 THEN /\ Fail("val_nr")
                      /\ UNCHANGED <<audio_data, trace>>
                 ELSE /\ pc' = "vintage"
                      /\ UNCHANGED response
                      /\ IF Float(val, 0) > 0
                         THEN /\ audio_data' = ApplyStage(audio_data,
                                    [type |-> "reduce_noise",
                                     args |-> <<Float(val, 0)>>])
                              /\ trace' = Append(trace, "reduce_noise")
                         ELSE UNCHANGED <<audio_data, trace>>
    /\ UNCHANGED <<files, board_modules, processed_voice_seg, music_seg, mix,
                   final_output>>

\* The modules of the presets; v and p are the intensity in percent.
VintageModules(v) ==
    << [type |-> "HighpassFilter", args |-> <<300 + 2 * v>>],
       [type |-> "LowpassFilter", args |-> <<3500 - 20 * v>>],
       [type |-> "Distortion", args |-> <<20 * v>>] >>
MicModules ==
    << [type |-> "HighpassFilter", args |-> <<80>>],
       [type |-> "HighShelfFilter", args |-> <<4000, 3>>],
       [type |-> "LowShelfFilter", args |-> <<200, 2>>] >>
PodcastModules(p) ==
    << [type |-> "NoiseGate", args |-> <<-40, 4, 200>>],
       [type |-> "Compressor", args |-> <<-16, 200 + 4 * p, 1, 100>>],
       [type |-> "Limiter", args |-> <<-1>>] >>

\* A. Vintage
Vintage ==
    /\ pc = "vintage"
    /\ \E en \in FieldValues("enable_vintage") :
         IF en.k # "true"
         THEN /\ form' = [form EXCEPT !["enable_vintage"] = en]
              /\ pc' = "mic"
              /\ UNCHANGED <<board_modules, response>>
         ELSE \E val \in FieldValues("val_vintage") :
              /\ form' = [form EXCEPT !["enable_vintage"] = en, !["val_vintage"] = val]
              /\ IF ~IsNumeric(val)
                 THEN /\ Fail("val_vintage")
                      /\ UNCHANGED board_modules
                 ELSE /\ board_modules' = board_modules \o VintageModules(Float(val, 0))
                      /\ pc' = "mic"
                      /\ UNCHANGED response
    /\ UNCHANGED <<files, audio_data, processed_voice_seg, music_seg, mix,
                   final_output, trace>>

\* B. Mic Sim
MicSim ==
    /\ pc = "mic"
    /\ \E en \in FieldValues("enable_mic") :
         /\ form' = [form EXCEPT !["enable_mic"] = en]
         /\ board_modules' = IF en.k = "true" THEN board_modules \o MicModules
                             ELSE board_modules
    /\ pc' = "podcast"
    /\ UNCHANGED <<files, audio_data, processed_voice_seg, music_seg, mix,
                   final_output, response, trace>>

\* C. Podcast Voice
Podcast ==
    /\ pc = "podcast"
    /\ \E en \in FieldValues("enable_podcast") :
         IF en.k # "true"
         THEN /\ form' = [form EXCEPT !["enable_podcast"] = en]
              /\ pc' = "apply"
              /\ UNCHANGED <<board_modules, response>>
         ELSE \E val \in FieldValues("val_podcast") :
              /\ form' = [form EXCEPT !["enable_podcast"] = en, !["val_podcast"] = val]
              /\ IF ~IsNumeric(val)
                 THEN /\ Fail("val_podcast")
                      /\ UNCHANGED board_modules
                 ELSE /\ board_modules' = board_modules \o PodcastModules(Float(val, 0))
                      /\ pc' = "apply"
                      /\ UNCHANGED response
    /\ UNCHANGED <<files, audio_data, processed_voice_seg, music_seg, mix,
                   final_output, trace>>

\* Mutant of RunBoard: the rack is run from its last plugin to its first.
RECURSIVE RunBoardReversed(_, _)
RunBoardReversed(data, modules) ==
    IF modules = <<>> THEN data
    ELSE RunBoardReversed([data EXCEPT !.fx = Append(@, modules[Len(modules)])],
                          SubSeq(modules, 1, Len(modules) - 1))

\* Pedalboard(board_modules)(audio_data, sample_rate): the plugins in list order.
RECURSIVE RunBoard(_, _)
RunBoard(data, modules) ==
    IF modules = <<>> THEN data
    ELSE RunBoard(ApplyStage(data, Head(modules)), Tail(modules))

ModuleTypes(modules) == [i \in 1..Len(modules) |-> modules[i].type]

\* Apply Effects, then Convert back to Pydub for Mixing
ApplyEffects ==
    /\ pc = "apply"
    /\ LET processed_data == IF board_modules # <<>>
                             THEN RunBoard(audio_data, board_modules)
                             ELSE audio_data
       IN /\ audio_data' = processed_data
          /\ processed_voice_seg' =
                convert_numpy_to_audio(processed_data, audio_data.sample_rate)
          /\ trace' = (trace \o (IF board_modules # <<>>
                                 THEN ModuleTypes(board_modules) ELSE <<>>))
                      \o <<"clip", "int16">>
    /\ pc' = "bg"
    /\ UNCHANGED <<files, form, board_modules, music_seg, mix, final_output,
                   response>>

---------------------------------------------------------------------------
\* pydub's AudioSegment operations, at one frame per millisecond.

\* bytes[a:b] of Python: negative indexes count from the end, both are clamped.
PyIndex(n, i) == IF i < 0 THEN Max(0, n + i) ELSE Min(i, n)
PySlice(frames, a, b) ==
    SubSeq(frames, PyIndex(Len(frames), a) + 1, PyIndex(Len(frames), b))

\* AudioSegment._parse_position
ParsePosition(frames, val) == IF val < 0 THEN Len(frames) - Abs(val) ELSE val

\* The tail of AudioSegment.__getitem__: the frames of [start, end), at most
\* 2 ms of missing frames filled with silence, more raising TooManyMissingFrames.
GetItem(frames, start, end) ==
    LET s == ParsePosition(frames, start)
        e == ParsePosition(frames, end)
        data == PySlice(frames, s, e)
        missing == (e - s) - Len(data)
    IN IF missing > MaxMissingMs
       THEN [ok |-> FALSE, frames |-> <<>>]
       ELSE [ok |-> TRUE,
             frames |-> IF missing > 0 /\ data # <<>>
                        THEN data \o [i \in 1..missing |-> SilentFrame]
                        ELSE data]

\* segment[start:end]
SliceMs(frames, start, end) ==
    GetItem(frames, Min(start, Len(frames)), Min(end, Len(frames)))
\* segment[start:]
SliceFrom(frames, start) == SliceMs(frames, start, Len(frames))
\* segment[:end]
SliceTo(frames, end) == SliceMs(frames, 0, end)
\* segment[ms]
IndexMs(frames, ms) == GetItem(frames, ms, ms + 1)

\* segment * loops
RECURSIVE Repeat(_, _)
Repeat(frames, loops) ==
    IF loops <= 0 THEN <<>> ELSE frames \o Repeat(frames, loops - 1)

\* The faded part of AudioSegment.fade, for i in range(duration): one gain step
\* per ms through __getitem__ when duration > 100, else one per frame through
\* get_frame.  Step i of d scales a frame by 1 - i * (1 - 10^-6) / d.  A position
\* before -2 * len - 1 yields no frame on either path (both ends of its slice
\* clamp to 0), so the steps are enumerated from there.
FadedFrames(frames, start, d) ==
    LET Chunk(i) == IF d > CoarseFadeMs
                    THEN IndexMs(frames, start + i).frames
                    ELSE PySlice(frames, start + i, start + i + 1)
        Kept(i) == Chunk(i) # <<>>
        first == Max(0, -(2 * Len(frames) + 1) - start)
        steps == SelectSeq([i \in 1..(d - first) |-> first + i - 1], Kept)
    IN [n \in 1..Len(steps) |->
          [Chunk(steps[n])[1] EXCEPT !.step = steps[n], !.of = d]]

\* segment.fade_out(duration) = fade(to_gain=-120, duration=duration,
\* end=float('inf')): end = len, start = end - duration; a negative duration
\* raises InvalidDuration and a zero one TypeError (end - None).
fade_out(frames, duration) ==
    IF duration <= 0
    THEN [ok |-> FALSE, frames |-> <<>>]
    ELSE LET end == Len(frames)
             start == end - duration
             before_fade == SliceTo(frames, start)
             after_fade == SliceFrom(frames, end)
         IN [ok |-> before_fade.ok /\ after_fade.ok,
             frames |-> before_fade.frames
                        \o FadedFrames(frames, start, duration)
                        \o after_fade.frames]

\* voice.overlay(music, position=0): the music, cut to the voice's length, is
\* added to the voice frame by frame; the rest of the voice follows unmixed.
overlay(voice, music) ==
    [voice |-> voice,
     music |-> SubSeq(music.frames, 1, Min(Len(music.frames), Len(voice.pcm))),
     music_gain |-> music.gain,
     mixed |-> TRUE]

\* 20 * math.log10(percent / 100.0), in thousandths of a dB.
GainMilliDb(percent) ==
    CASE percent = 200 -> 6021
      [] percent = 100 -> 0
      [] percent = 50 -> -6021
      [] percent = 20 -> -13979
      [] percent = 10 -> -20000
      [] percent = 1 -> -40000

---------------------------------------------------------------------------
\* Stage 2: background music mixing.

\* bg_file = request.files.get('bg_file'); if bg_file and bg_file.filename != ''
NoBackground ==
    /\ pc = "bg"
    /\ files.bg_file.status \in {"missing", "empty"}
    /\ final_output' = [voice |-> processed_voice_seg, music |-> <<>>,
                        music_gain |-> 0, mixed |-> FALSE]
    /\ pc' = "export"
    /\ UNCHANGED <<files, form, audio_data, board_modules, processed_voice_seg,
                   music_seg, mix, response, trace>>

\* AudioSegment.from_file(bg_file), Match Frame Rate
LoadMusic ==
    /\ pc = "bg"
    /\ files.bg_file.status \in {"ok", "corrupt"}
    /\ IF files.bg_file.status = "corrupt"
       THEN /\ Fail("decode")
            /\ UNCHANGED music_seg
       ELSE /\ music_seg' =
                 [frames |-> files.bg_file.pcm,
                  frame_rate |-> IF files.bg_file.frame_rate
                                      # processed_voice_seg.frame_rate
                                 THEN processed_voice_seg.frame_rate
                                 ELSE files.bg_file.frame_rate,
                  gain |-> 0]
            /\ pc' = "trim"
            /\ UNCHANGED response
    /\ UNCHANGED <<files, form, audio_data, board_modules, processed_voice_seg,
                   mix, final_output, trace>>

\* Mutant of TrimWindow: ">=" for ">" between end and start.
TrimWindowInclusive(frames, start_sec, end_sec) ==
    IF end_sec > 0 /\ end_sec >= start_sec
    THEN SliceMs(frames, start_sec, end_sec)
    ELSE SliceFrom(frames, start_sec)

\* The window of "Cut Selection".
TrimWindow(frames, start_sec, end_sec) ==
    IF end_sec > 0 /\ end_sec > start_sec
    THEN SliceMs(frames, start_sec, end_sec)
    ELSE SliceFrom(frames, start_sec)

\* 2A. TRIM: the two floats, both 0 when either fails to parse, then the cut.
\* bg_end is read only when bg_start has parsed.
TrimWith(start, end) ==
    LET ok == IsNumeric(start) /\ IsNumeric(end)
        start_sec == IF ok THEN Float(start, 0) ELSE 0
        end_sec == IF ok THEN Float(end, 0) ELSE 0
        cut == TrimWindow(music_seg.frames, start_sec, end_sec)
    IN /\ form' = [form EXCEPT !["bg_start"] = start,
                               !["bg_end"] = IF IsNumeric(start) THEN end ELSE @]
       /\ mix' = [mix EXCEPT !.start_sec = start_sec, !.end_sec = end_sec]
       /\ IF cut.ok
          THEN /\ music_seg' = [music_seg EXCEPT !.frames = cut.frames]
               /\ pc' = "loop"
               /\ UNCHANGED response
          ELSE /\ Fail("TooManyMissingFrames")
               /\ UNCHANGED music_seg

Trim ==
    /\ pc = "trim"
    /\ \E start \in FieldValues("bg_start"), end \in FieldValues("bg_end") :
         TrimWith(start, end)
    /\ UNCHANGED <<files, audio_data, board_modules, processed_voice_seg,
                   final_output, trace>>

\* Mutant of LoopCount: the "+ 1" is missing.
LoopCountExact(voice_len, music_len) == voice_len \div music_len

\* int(len(processed_voice_seg) / len(music_seg)) + 1
LoopCount(voice_len, music_len) == (voice_len \div music_len) + 1

\* Loop to cover voice, then Initial Trim to Voice Length.
LoopedAndCut(frames, voice_len) ==
    LET looped == IF Len(frames) < voice_len
                  THEN Repeat(frames, LoopCount(voice_len, Len(frames)))
                  ELSE frames
    IN SliceTo(looped, voice_len)

Loop ==
    /\ pc = "loop"
    /\ LET voice_len == Len(processed_voice_seg.pcm)
           music_len == Len(music_seg.frames)
       IN IF music_len < voice_len /\ music_len = 0
          THEN /\ Fail("division by zero")
               /\ UNCHANGED <<music_seg, mix>>
          ELSE /\ mix' = [mix EXCEPT !.loops =
                             IF music_len < voice_len
                             THEN LoopCount(voice_len, music_len) ELSE 0]
               /\ music_seg' = [music_seg EXCEPT !.frames =
                                   LoopedAndCut(music_seg.frames, voice_len).frames]
               /\ pc' = "volume"
               /\ UNCHANGED response
    /\ UNCHANGED <<files, form, audio_data, board_modules, processed_voice_seg,
                   final_output, trace>>

\* Mutant of VolumeIsSilence: "< 0" for "<= 0".
VolumeIsNegative(percent) == percent < 0

\* if bg_vol_percent <= 0
VolumeIsSilence(percent) == percent <= 0

\* 2B. VOLUME
Volume ==
    /\ pc = "volume"
    /\ \E vol \in FieldValues("bg_vol") :
         /\ form' = [form EXCEPT !["bg_vol"] = vol]
         /\ IF ~IsNumeric(vol)
            THEN /\ Fail("bg_vol")
                 /\ UNCHANGED <<music_seg, mix>>
            ELSE LET bg_vol_percent == Float(vol, DefaultBgVol)
                 IN IF VolumeIsSilence(bg_vol_percent)
                    THEN /\ music_seg' = [music_seg EXCEPT
                                             !.gain = @ + SilenceGainDb * 1000]
                         /\ mix' = [mix EXCEPT !.gain_db = SilenceGainDb * 1000]
                         /\ pc' = "fade"
                         /\ UNCHANGED response
                    ELSE /\ mix' = [mix EXCEPT
                                       !.log_called = TRUE,
                                       !.log_arg = bg_vol_percent,
                                       !.gain_db = IF bg_vol_percent > 0
                                                   THEN GainMilliDb(bg_vol_percent)
                                                   ELSE @]
                         \* math.log10 raises ValueError on an argument <= 0
                         /\ IF bg_vol_percent > 0
                            THEN /\ music_seg' = [music_seg EXCEPT
                                        !.gain = @ + GainMilliDb(bg_vol_percent)]
                                 /\ pc' = "fade"
                                 /\ UNCHANGED response
                            ELSE /\ Fail("math domain error")
                                 /\ UNCHANGED music_seg
    /\ UNCHANGED <<files, audio_data, board_modules, processed_voice_seg,
                   final_output, trace>>

\* Apply Fade if user requested it: the cut to the fade's end, then the fade.
FadedTrack(frames, fade_start_sec, fade_len_sec) ==
    IF fade_start_sec > 0
    THEN LET total_duration_ms == fade_start_sec + fade_len_sec
         IN IF total_duration_ms < Len(frames)
            THEN LET cut == SliceTo(frames, total_duration_ms)
                     faded == fade_out(cut.frames, fade_len_sec)
                 IN [ok |-> cut.ok /\ faded.ok, frames |-> faded.frames]
            ELSE fade_out(frames, fade_len_sec)
    ELSE [ok |-> TRUE, frames |-> frames]

\* Mutant of FadeWith: no try/except around the two floats.
FadeWithUnguarded(fstart, flen) ==
    /\ form' = [form EXCEPT !["bg_fade_start"] = fstart,
                            !["bg_fade_len"] = IF IsNumeric(fstart) THEN flen ELSE @]
    /\ IF IsNumeric(fstart) /\ IsNumeric(flen)
       THEN LET fade_start_sec == Float(fstart, 0)
                fade_len_sec == Float(flen, DefaultFadeLenSec * MsPerSec)
                faded == FadedTrack(music_seg.frames, fade_start_sec, fade_len_sec)
            IN /\ mix' = [mix EXCEPT !.fade_start_sec = fade_start_sec,
                                     !.fade_len_sec = fade_len_sec]
               /\ IF faded.ok
                  THEN /\ music_seg' = [music_seg EXCEPT !.frames = faded.frames]
                       /\ pc' = "overlay"
                       /\ UNCHANGED response
                  ELSE /\ Fail("fade_out")
                       /\ UNCHANGED music_seg
       ELSE /\ Fail(IF IsNumeric(fstart) THEN "bg_fade_len" ELSE "bg_fade_start")
            /\ UNCHANGED <<music_seg, mix>>

\* 2C. FADE OUT LOGIC: the two floats, (0, 3) when either fails to parse.
\* bg_fade_len is read only when bg_fade_start has parsed.
FadeWith(fstart, flen) ==
    LET ok == IsNumeric(fstart) /\ IsNumeric(flen)
        fade_start_sec == IF ok THEN Float(fstart, 0) ELSE 0
        fade_len_sec == IF ok THEN Float(flen, DefaultFadeLenSec * MsPerSec)
                        ELSE DefaultFadeLenSec * MsPerSec
        faded == FadedTrack(music_seg.frames, fade_start_sec, fade_len_sec)
    IN /\ form' = [form EXCEPT !["bg_fade_start"] = fstart,
                               !["bg_fade_len"] = IF IsNumeric(fstart) THEN flen ELSE @]
       /\ mix' = [mix EXCEPT !.fade_start_sec = fade_start_sec,
                             !.fade_len_sec = fade_len_sec]
       /\ IF faded.ok
          THEN /\ music_seg' = [music_seg EXCEPT !.frames = faded.frames]
               /\ pc' = "overlay"
               /\ UNCHANGED response
          ELSE /\ Fail("fade_out")
               /\ UNCHANGED music_seg

FadeOut ==
    /\ pc = "fade"
    /\ \E fstart \in FieldValues("bg_fade_start"),
          flen \in FieldValues("bg_fade_len") :
         FadeWith(fstart, flen)
    /\ UNCHANGED <<files, audio_data, board_modules, processed_voice_seg,
                   final_output, trace>>

\* Mutant of Overlay: the mixed signal is clamped after the overlay.
OverlayThenClamp ==
    /\ pc = "overlay"
    /\ final_output' = overlay(processed_voice_seg, music_seg)
    /\ trace' = trace \o <<"overlay", "clip">>
    /\ pc' = "export"
    /\ UNCHANGED <<files, form, audio_data, board_modules, processed_voice_seg,
                   music_seg, mix, response>>

\* 2D. OVERLAY
Overlay ==
    /\ pc = "overlay"
    /\ final_output' = overlay(processed_voice_seg, music_seg)
    /\ trace' = Append(trace, "overlay")
    /\ pc' = "export"
    /\ UNCHANGED <<files, form, audio_data, board_modules, processed_voice_seg,
                   music_seg, mix, response>>

\* Stage 3: EXPORT.  The encoder is outside the handler and may fail.
Export ==
    /\ pc = "export"
    /\ \/ /\ pc' = "done"
          /\ response' = [status |-> 200, body |-> "final_mix.mp3"]
          /\ trace' = Append(trace, "export")
       \/ /\ Fail("encode")
          /\ UNCHANGED trace
    /\ UNCHANGED <<files, form, audio_data, board_modules, processed_voice_seg,
                   music_seg, mix, final_output>>

Next ==
    \/ Reject
    \/ LoadVoice
    \/ NoiseReduction
    \/ Vintage
    \/ MicSim
    \/ Podcast
    \/ ApplyEffects
    \/ NoBackground
    \/ LoadMusic
    \/ Trim
    \/ Loop
    \/ Volume
    \/ FadeOut
    \/ Overlay
    \/ Export

Spec == Init /\ [][Next]_vars

---------------------------------------------------------------------------
\* Properties.

Enabled(f) == form[f].k = "true"
PostVoice == {"bg", "trim", "loop", "volume", "fade", "overlay", "export", "done"}
PostTrim == {"loop", "volume", "fade", "overlay", "export", "done"}
PostVolume == {"fade", "overlay", "export", "done"}
PostFade == {"overlay", "export", "done"}
VoiceLen == Len(processed_voice_seg.pcm)
StageNames == {"reduce_noise", "HighpassFilter", "LowpassFilter", "Distortion",
               "HighShelfFilter", "LowShelfFilter", "NoiseGate", "Compressor",
               "Limiter"}
Occurrences(seq, x) == Cardinality({i \in DOMAIN seq : seq[i] = x})

\* The stage sequence the flags of the request call for.
ExpectedStages ==
    (IF Enabled("enable_nr") /\ form["val_nr"].k = "num" /\ form["val_nr"].n > 0
     THEN <<"reduce_noise">> ELSE <<>>)
    \o (IF Enabled("enable_vintage")
        THEN <<"HighpassFilter", "LowpassFilter", "Distortion">> ELSE <<>>)
    \o (IF Enabled("enable_mic")
        THEN <<"HighpassFilter", "HighShelfFilter", "LowShelfFilter">> ELSE <<>>)
    \o (IF Enabled("enable_podcast")
        THEN <<"NoiseGate", "Compressor", "Limiter">> ELSE <<>>)

\* C1: once the voice stage has run, the stages applied to the voice buffer are,
\* in this order: noise reduction (only when enable_nr is 'true' and val_nr > 0),
\* the three Vintage stages, the three Mic-Sim stages, the three Podcast stages,
\* each preset present exactly when its flag is 'true'.
C1_StageOrder ==
    pc \in PostVoice =>
        /\ ModuleTypes(audio_data.fx) = ExpectedStages
        /\ processed_voice_seg.fx = audio_data.fx

C1_Witness ==
    /\ pc \in PostVoice
    /\ \A f \in FlagFields : Enabled(f)
    /\ Len(audio_data.fx) = 10

\* C2: with no flag equal to 'true' and no background file (absent or with an
\* empty filename), no stage is applied, the buffer handed to the encode
\* conversion is the decoded voice, and the output is the encoded voice (each
\* sample of the upload, -32768 becoming -32767) with no music mixed in.
C2_Passthrough ==
    ( /\ pc \in {"export", "done"}
      /\ \A f \in FlagFields : ~Enabled(f)
      /\ files.bg_file.status \in {"missing", "empty"} ) =>
        LET raw == files.audio_file.pcm
        IN /\ board_modules = <<>>
           /\ audio_data.fx = <<>>
           /\ audio_data.samples =
                 [i \in 1..Len(raw) |-> [num |-> raw[i], den |-> Int16Max]]
           /\ final_output.voice = processed_voice_seg
           /\ final_output.voice.fx = <<>>
           /\ final_output.voice.pcm =
                 [i \in 1..Len(raw) |-> IF raw[i] = -32768 THEN -32767 ELSE raw[i]]
           /\ ~final_output.mixed
           /\ final_output.music = <<>>
           /\ \A i \in DOMAIN trace : trace[i] \notin StageNames \cup {"overlay"}

C2_Witness ==
    /\ pc = "done"
    /\ \A f \in FlagFields : ~Enabled(f)
    /\ files.bg_file.status = "empty"
    /\ Len(final_output.voice.pcm) = MaxVoice
    /\ response.status = 200

\* C3: the Loop and Truncate steps turn a trimmed track of length M > 0 into one
\* of exactly the voice's length V whose position i holds the trimmed track's
\* position i mod M; it is repeated floor(V/M)+1 times when M < V, which covers
\* V, and not repeated when M >= V.
C3_LoopCoverage ==
    [][ (pc = "loop" /\ pc' = "volume" /\ Len(music_seg.frames) > 0) =>
          LET M == Len(music_seg.frames)
              V == VoiceLen
              out == music_seg'.frames
          IN /\ Len(out) = V
             /\ \A i \in 0..(V - 1) : out[i + 1] = music_seg.frames[(i % M) + 1]
             /\ M < V => mix'.loops = (V \div M) + 1 /\ mix'.loops * M >= V
             /\ M >= V => mix'.loops = 0 ]_vars

C3_Witness ==
    /\ pc = "volume"
    /\ mix.loops = 2
    /\ Len(music_seg.frames) = 3
    /\ music_seg.frames[3] = music_seg.frames[1]
    /\ music_seg.frames[2] # music_seg.frames[1]

\* C4 as claimed: no numeric option aborts the request when it is not a number.
C4_EveryOptionRecovered ==
    \A f \in NumFields : form[f] = Bad => ~(pc = "error" /\ response.body = f)

\* C4 as amended: a non-numeric bg_start or bg_end makes both 0 and a non-numeric
\* bg_fade_start or bg_fade_len makes the fade start 0 and the fade length 3 s,
\* and the request goes on to the next step; a non-numeric val_nr, val_vintage,
\* val_podcast or bg_vol that the handler reads ends the request with an error.
C4_Recovery ==
    /\ (form["bg_start"] = Bad \/ form["bg_end"] = Bad) =>
          /\ mix.start_sec = 0 /\ mix.end_sec = 0
          /\ pc \in PostTrim \cup {"error"}
          /\ pc = "error" => response.body \in {"bg_vol", "fade_out", "encode"}
    /\ (form["bg_fade_start"] = Bad \/ form["bg_fade_len"] = Bad) =>
          /\ mix.fade_start_sec = 0
          /\ mix.fade_len_sec = DefaultFadeLenSec * MsPerSec
          /\ pc \in PostFade \cup {"error"}
          /\ pc = "error" => response.body = "encode"
    /\ \A f \in {"val_nr", "val_vintage", "val_podcast", "bg_vol"} :
          form[f] = Bad =>
              pc = "error" /\ response = [status |-> 500, body |-> f]

C4_Witness ==
    /\ pc = "done"
    /\ form["bg_end"] = Bad
    /\ form["bg_fade_len"] = Bad
    /\ form["bg_fade_start"] = Num(1)
    /\ final_output.mixed
    /\ response.status = 200

\* C5: a non-numeric bg_start or bg_end makes both 0, the Trim step keeps the
\* whole track and does not fail; otherwise the track is cut to [start, end)
\* when end > 0 and end > start and to [start, end of track) in every other case.
C5_Trim ==
    LET raw == files.bg_file.pcm
        bad == form["bg_start"] = Bad \/ form["bg_end"] = Bad
        s == form["bg_start"].n
        e == form["bg_end"].n
    IN /\ pc = "loop" =>
            /\ bad => /\ music_seg.frames = raw
                      /\ mix.start_sec = 0 /\ mix.end_sec = 0
            /\ (~bad /\ e > 0 /\ e > s) =>
                  music_seg.frames = SubSeq(raw, Min(s, Len(raw)) + 1, Min(e, Len(raw)))
            /\ (~bad /\ ~(e > 0 /\ e > s)) =>
                  music_seg.frames = SubSeq(raw, Min(s, Len(raw)) + 1, Len(raw))
       /\ (bad /\ pc = "error") =>
            response.body \notin {"bg_start", "bg_end", "TooManyMissingFrames",
                                  "division by zero"}

C5_Witness ==
    /\ pc = "loop"
    /\ form["bg_start"] = Num(1)
    /\ form["bg_end"] = Bad
    /\ Len(music_seg.frames) = MaxMusic
    /\ music_seg.frames = files.bg_file.pcm

\* C6: the level-match step never takes the logarithm of a number <= 0 and never
\* raises a domain error: bg_vol <= 0 applies the fixed -100 dB without a
\* logarithm, bg_vol > 0 applies 20*log10(bg_vol/100), which is 0 dB at 100.
C6_LevelMatch ==
    /\ mix.log_called => mix.log_arg > 0
    /\ response.body # "math domain error"
    /\ (pc \in PostVolume /\ IsNumeric(form["bg_vol"])) =>
          LET v == Float(form["bg_vol"], DefaultBgVol)
          IN /\ v <= 0 => /\ ~mix.log_called
                          /\ mix.gain_db = -100000
                          /\ music_seg.gain = -100000
             /\ v > 0 => /\ mix.log_called /\ mix.log_arg = v
                         /\ music_seg.gain = mix.gain_db
             /\ v = 100 => music_seg.gain = 0
             /\ v = DefaultBgVol => music_seg.gain = -13979

C6_Witness ==
    /\ pc = "fade"
    /\ form["bg_vol"] = Num(0)
    /\ music_seg.gain = -100000
    /\ ~mix.log_called

\* A frame at full gain: not scaled by a fade step.
Unattenuated(frame) == frame.step = 0

\* C7 as claimed: after the fade step on the track of the voice's length L, with
\* fade_end = bg_fade_start + bg_fade_len: when bg_fade_start > 0 and
\* fade_end < L the track has length fade_end, is unattenuated before
\* bg_fade_start and fades over its last bg_fade_len; when bg_fade_start > 0 and
\* fade_end >= L it keeps length L and fades over its last bg_fade_len; when
\* bg_fade_start <= 0 it is neither faded nor shortened.
C7_FadeOut ==
    pc = "overlay" =>
        LET L == VoiceLen
            fs == mix.fade_start_sec
            fl == mix.fade_len_sec
            out == music_seg.frames
        IN /\ (fs > 0 /\ fs + fl < L) =>
                /\ Len(out) = fs + fl
                /\ \A i \in 1..fs : Unattenuated(out[i])
                /\ \A i \in (fs + 1)..(fs + fl) :
                      out[i].step = i - fs - 1 /\ out[i].of = fl
           /\ (fs > 0 /\ fs + fl >= L) =>
                /\ Len(out) = L
                /\ \A i \in 1..(L - fl) : Unattenuated(out[i])
           /\ fs <= 0 =>
                /\ Len(out) = L
                /\ \A i \in 1..L : Unattenuated(out[i])

\* C8 as claimed: the music handed to the overlay is never longer than the
\* processed voice, and the mixed output has the voice's length and frame rate.
C8_MusicWithinVoice ==
    /\ pc = "overlay" => Len(music_seg.frames) <= VoiceLen
    /\ (pc \in {"export", "done"} /\ final_output.mixed) =>
          /\ final_output.voice = processed_voice_seg
          /\ Len(final_output.music) <= VoiceLen
          /\ music_seg.frame_rate = processed_voice_seg.frame_rate

C10_AllOrNothing ==
    /\ response.status = 200 =>
          /\ pc = "done"
          /\ files.audio_file.status = "ok"
          /\ files.bg_file.status # "corrupt"
          /\ \A f \in NumFields \ {"bg_start", "bg_end", "bg_fade_start", "bg_fade_len"} :
                form[f] # Bad
          /\ trace[1] = "decode" /\ trace[Len(trace)] = "export"
          /\ Occurrences(trace, "clip") = 1
          /\ final_output.voice = processed_voice_seg
          /\ final_output.mixed <=> files.bg_file.status = "ok"
          /\ final_output.mixed =>
                Occurrences(trace, "overlay") = 1 /\ pc \in PostFade
    /\ pc = "error" => response.status = 500 /\ "export" \notin {trace[i] : i \in DOMAIN trace}
    /\ pc = "done" => response.status = 200
    /\ pc \notin {"done", "error", "rejected"} => response = NoResponse
    /\ (files.audio_file.status = "corrupt" /\ pc # "start") =>
          pc = "error" /\ trace = <<>>
    /\ files.bg_file.status = "corrupt" => pc \notin PostVoice \ {"bg"}
    /\ \A f \in {"val_nr", "val_vintage", "val_podcast"} : form[f] = Bad => pc = "error"
    /\ pc \in PostVolume \ PostFade => Len(music_seg.frames) = VoiceLen
    /\ files.audio_file.status \in {"missing", "empty"} =>
          /\ pc \in {"start", "rejected"}
          /\ trace = <<>> /\ audio_data = NoBuffer /\ form = [f \in Fields |-> Unread]
          /\ pc = "rejected" => response.status = 400

C10_Witness ==
    /\ pc = "error"
    /\ response = [status |-> 500, body |-> "division by zero"]
    /\ music_seg.frames = <<>>
    /\ VoiceLen > 0

====
